---- MODULE Spec2Model ----
(***************************************************************************)
(* Model of the download orchestration of gtex.py: enumeration of the URL  *)
(* list against the output directory, the aria2c branch, the dry run, the  *)
(* sequential-streamed strategy, the thread-pool strategy and the summary. *)
(* A URL and a file name are sequences of characters; ".svs" is one symbol.*)
(***************************************************************************)
EXTENDS Integers, Sequences, FiniteSets, TLC

\* ------------------------------------------------------------------ bounds
MaxUrls == 2

MaxConc == 2

MaxPoolUrls == 3

MaxFairUrls == 2

MaxFiles == 5

MaxBatch == 2

\* largest number of images asked for at a prompt of main.py
MaxImages == 1

\* ------------------------------------------------------- program constants
\* BATCH_SIZE = 10
DefaultBatchSize == 10

\* return code wget_download / main use when an exception was raised
ExcCode == 3

\* ------------------------------------------------------------ input domains
\* URL lines after load_urls: non-blank, stripped, not starting with '#'
URLS ==
  { <<"a">>, <<"x", "/", "a">>, <<"b", "/">>, <<"/">> }

ListsOf(U, n) ==
  UNION { [1..m -> U] : m \in 0..n }

\* --concurrency values of a whole-program run: both sides of the `<= 1`
\* test, a negative value included (type=int accepts any integer)
ConcValues == {0 - 1, 0, 1, 2}

\* how the server may name a downloaded file: after the URL's last segment,
\* that name plus the canonical suffix, or a name of its own
ServerNames == {"url", "svs", "own"}

\* what the output directory may hold before the first run
InitDirs ==
  { {}, { <<"a">> }, { <<"b", ".svs">> } }

\* exit codes of the wget process itself: success, or a failure
WgetExitCodes == {0, 8}

\* exit codes of tee in the streamed pipeline
TeeExitCodes == {0, 1}

\* ------------------------------------------------------------ pure helpers
Range(s) == { s[k] : k \in 1..Len(s) }

Max(a, b) == IF a >= b THEN a ELSE b

RECURSIVE rstrip_slash(_)
\* str.rstrip("/")
rstrip_slash(s) ==
  IF s = <<>> THEN <<>>
  ELSE IF s[Len(s)] = "/" THEN rstrip_slash(SubSeq(s, 1, Len(s) - 1))
  ELSE s

\* s.split("/")[-1]: what follows the last "/" (all of s when there is none)
last_segment(s) ==
  LET slashes == { k \in 1..Len(s) : s[k] = "/" }
      last == IF slashes = {} THEN 0
              ELSE CHOOSE k \in slashes : \A m \in slashes : m <= k
  IN SubSeq(s, last + 1, Len(s))

\* url.rstrip("/").split("/")[-1]
basename(url) == last_segment(rstrip_slash(url))

\* the name wget_download derives: basename with the "download" fallback
wget_name(url) ==
  IF basename(url) = <<>> THEN <<"download">> ELSE basename(url)

\* Path.exists() of outdir / name; outdir / "" is outdir itself, which exists
path_exists(files, name) == name = <<>> \/ name \in files

file_already_existsNoSvs(files, name) == path_exists(files, name)

file_already_exists(files, name) ==
  path_exists(files, name) \/ path_exists(files, name \o <<".svs">>)

VARIABLES
  urls, skip_existing, dry_run, sequential, use_aria, concurrency,
  fs, log_writes, server_names, wget_on_path,
  pc, exitCode, aria_path,
  to_download, skipped, fs_enum, results, reports,
  i, cur,
  fut, ret, early, late,
  attempts, wgetExit, made, fetched,
  ariaInput, ariaRuns,
  run, prev,
  gdc_files, gdc_overwrite, gdc_method, BATCH_SIZE, gdc_fs, gdc_pc,
  gdc_idx, gdc_i, gdc_calls, gdc_out, gdc_removed,
  main_pc, selected, max_images, out_urls, urlfile, cleanup, tmpfiles,
  created, max_n, cmd, returncode

config ==
  <<urls, skip_existing, sequential, use_aria, concurrency, server_names,
    wget_on_path>>

disk == <<fs, log_writes>>

lists == <<to_download, skipped, fs_enum>>

pool == <<fut, ret, early, late>>

ghost == <<attempts, wgetExit, made, fetched>>

aria == <<ariaInput, ariaRuns>>

\* the state of a run of gdc.py
gdc ==
  <<gdc_files, gdc_overwrite, gdc_method, BATCH_SIZE, gdc_fs, gdc_pc,
    gdc_idx, gdc_i, gdc_calls, gdc_out, gdc_removed>>

\* the state of a run of gtex.py
gtex ==
  <<urls, skip_existing, dry_run, sequential, use_aria, concurrency,
    fs, log_writes, server_names, wget_on_path, pc, exitCode, aria_path,
    to_download,
    skipped, fs_enum, results, reports, i, cur, fut, ret, early, late,
    attempts, wgetExit, made, fetched, ariaInput, ariaRuns, run,
    prev>>

\* the state of a run of main.py
orch ==
  <<main_pc, selected, max_images, out_urls, urlfile, cleanup, tmpfiles,
    created, max_n, cmd, returncode>>

vars == <<gtex, gdc, orch>>

NoCur == [name |-> <<>>, code |-> 0]

\* gdc.py is not run
GdcOff ==
  /\ gdc_files = <<>>
  /\ gdc_overwrite = FALSE
  /\ gdc_method = "1"
  /\ BATCH_SIZE = DefaultBatchSize
  /\ gdc_fs = {}
  /\ gdc_pc = "off"
  /\ gdc_idx = 0
  /\ gdc_i = 0
  /\ gdc_calls = <<>>
  /\ gdc_out = <<>>
  /\ gdc_removed = {}

\* main.py is not run
MainOff ==
  /\ main_pc = "off"
  /\ selected = {}
  /\ max_images = 0
  /\ out_urls = <<>>
  /\ urlfile = <<>>
  /\ cleanup = FALSE
  /\ tmpfiles = {}
  /\ created = {}
  /\ max_n = 0
  /\ cmd = <<>>
  /\ returncode = 0 - 1

NoPrev ==
  [dry |-> FALSE, allOk |-> FALSE, to_download |-> <<>>, skipped |-> <<>>]

\* state of a process that has just been started
Fresh ==
  /\ pc = "start"
  /\ exitCode = 0 - 1
  /\ aria_path = FALSE
  /\ to_download = <<>>
  /\ skipped = <<>>
  /\ fs_enum = fs
  /\ results = <<>>
  /\ reports = <<>>
  /\ i = 0
  /\ cur = NoCur
  /\ fut = <<>>
  /\ ret = <<>>
  /\ early = <<>>
  /\ late = <<>>
  /\ attempts = <<>>
  /\ wgetExit = <<>>
  /\ made = <<>>
  /\ fetched = {}
  /\ ariaInput = <<>>
  /\ ariaRuns = 0

Init ==
  /\ urls \in ListsOf(URLS, MaxUrls)
  /\ skip_existing \in BOOLEAN
  /\ dry_run \in BOOLEAN
  /\ sequential \in BOOLEAN
  /\ use_aria \in BOOLEAN
  /\ concurrency \in ConcValues
  /\ fs \in InitDirs
  /\ log_writes = {}
  \* within one run the name the server chooses changes nothing: the
  \* suffix is left to SpecTwoRuns
  /\ server_names = {"url"}
  /\ wget_on_path \in BOOLEAN
  /\ run = 1
  /\ prev = NoPrev
  /\ Fresh
  /\ GdcOff
  /\ MainOff

\* ----------------------------------------------------------------- startup
check_wget_existsIgnored ==
  /\ pc = "start"
  /\ pc' = "find_aria"
  /\ UNCHANGED exitCode
  /\ UNCHANGED <<config, dry_run, disk, aria_path, lists, results, reports,
                 i, cur, pool, ghost, aria, run, prev, gdc,
                 orch>>

\* check_wget_exists: `which wget` fails -> sys.exit(2)
check_wget_exists ==
  /\ pc = "start"
  /\ IF wget_on_path
     THEN pc' = "find_aria" /\ UNCHANGED exitCode
     ELSE pc' = "exited" /\ exitCode' = 2
  /\ UNCHANGED <<config, dry_run, disk, aria_path, lists, results, reports,
                 i, cur, pool, ghost, aria, run, prev, gdc,
                 orch>>

\* find_aria, then the two mkdir(exist_ok=True) of outdir and outdir/.logs
find_aria ==
  /\ pc = "find_aria"
  /\ aria_path' \in BOOLEAN
  /\ pc' = "load_urls"
  /\ UNCHANGED <<config, dry_run, disk, exitCode, lists, results, reports,
                 i, cur, pool, ghost, aria, run, prev, gdc,
                 orch>>

\* load_urls: missing file -> sys.exit(2); no URL -> return from main
load_urls ==
  /\ pc = "load_urls"
  /\ \E exists \in BOOLEAN :
       IF ~exists THEN pc' = "exited" /\ exitCode' = 2
       ELSE IF urls = <<>> THEN pc' = "exited" /\ exitCode' = 0
       ELSE pc' = "enumerate" /\ UNCHANGED exitCode
  /\ UNCHANGED <<config, dry_run, disk, aria_path, lists, results, reports,
                 i, cur, pool, ghost, aria, run, prev, gdc,
                 orch>>

\* -------------------------------------------------------------- enumeration
should_skipNoFlag(url, files) == file_already_exists(files, basename(url))

\* the condition of the enumeration loop
should_skip(url, files) ==
  skip_existing /\ file_already_exists(files, basename(url))

RECURSIVE enum_to_downloadRev(_, _)
enum_to_downloadRev(us, files) ==
  IF us = <<>> THEN <<>>
  ELSE IF should_skip(Head(us), files) THEN enum_to_downloadRev(Tail(us), files)
  ELSE Append(enum_to_downloadRev(Tail(us), files), Head(us))

\* to_download after the loop `for url in urls` over the list us
RECURSIVE enum_to_download(_, _)
enum_to_download(us, files) ==
  IF us = <<>> THEN <<>>
  ELSE IF should_skip(Head(us), files) THEN enum_to_download(Tail(us), files)
  ELSE <<Head(us)>> \o enum_to_download(Tail(us), files)

RECURSIVE enum_skipped(_, _)
enum_skipped(us, files) ==
  IF us = <<>> THEN <<>>
  ELSE IF should_skip(Head(us), files)
       THEN <<basename(Head(us))>> \o enum_skipped(Tail(us), files)
  ELSE enum_skipped(Tail(us), files)

\* the enumeration loop, then the branch on use_aria / dry_run
enumerate ==
  /\ pc = "enumerate"
  /\ to_download' = enum_to_download(urls, fs)
  /\ skipped' = enum_skipped(urls, fs)
  /\ fs_enum' = fs
  /\ attempts' = [k \in 1..Len(to_download') |-> 0]
  /\ wgetExit' = [k \in 1..Len(to_download') |-> 0 - 1]
  /\ made' = [k \in 1..Len(to_download') |-> {}]
  /\ fut' = [k \in 1..Len(to_download') |-> "none"]
  /\ ret' = [k \in 1..Len(to_download') |-> 0]
  /\ pc' = "branch"
  /\ UNCHANGED <<config, dry_run, disk, exitCode, aria_path, results,
                 reports, i, cur, early, late, fetched, aria, run, prev, gdc,
                 orch>>

\* ------------------------------------------------------------- aria2c path
\* what the external tool leaves in outdir when it succeeds on a URL: the
\* URL's last segment, that name with the canonical suffix, or a name the
\* server chose (--content-disposition / --trust-server-names)
SuccessFiles(url) ==
  { f \in { basename(url), basename(url) \o <<".svs">>, <<"srv">> } :
      \/ "url" \in server_names /\ f = basename(url) /\ f # <<>>
      \/ "svs" \in server_names /\ f = basename(url) \o <<".svs">>
                                /\ basename(url) # <<>>
      \/ "own" \in server_names /\ f = <<"srv">>
      \/ basename(url) = <<>> /\ f = <<"srv">> }

\* if args.use_aria: tested before dry_run
aria_branch ==
  /\ pc = "branch"
  /\ use_aria
  /\ IF ~aria_path
     THEN /\ pc' = "exited" /\ exitCode' = 2
          /\ UNCHANGED <<disk, aria, fetched>>
     ELSE IF to_download = <<>>
     THEN /\ pc' = "exited" /\ exitCode' = 0
          /\ UNCHANGED <<disk, aria, fetched>>
     ELSE /\ ariaInput' = to_download
          /\ fetched' = fetched \cup Range(to_download)
          /\ ariaRuns' = ariaRuns + 1
          /\ \E outcome \in {"ok", "fail", "raised"} :
               /\ fs' = IF outcome = "ok"
                        THEN fs \cup { basename(to_download[k]) :
                                       k \in { m \in 1..Len(to_download) :
                                               basename(to_download[m]) # <<>> } }
                        ELSE fs
               /\ log_writes' = log_writes \cup { <<"aria2c">> }
               /\ IF outcome = "raised"
                  THEN pc' = "crashed" /\ exitCode' = 1
                  ELSE pc' = "exited" /\ exitCode' = 0
  /\ UNCHANGED <<config, dry_run, aria_path, lists, results, reports, i, cur,
                 pool, attempts, wgetExit, made, run, prev, gdc,
                 orch>>

\* ------------------------------------------------------------------ dry run
dry_run_report ==
  /\ pc = "branch"
  /\ ~use_aria
  /\ dry_run
  /\ pc' = "exited"
  /\ exitCode' = 0
  /\ UNCHANGED <<config, dry_run, disk, aria_path, lists, results, reports,
                 i, cur, pool, ghost, aria, run, prev, gdc,
                 orch>>

\* --------------------------------------------------------- strategy choice
use_sequentialBelowOne == sequential \/ concurrency < 1

\* if args.sequential or args.concurrency <= 1
use_sequential == sequential \/ concurrency <= 1

start_downloads ==
  /\ pc = "branch"
  /\ ~use_aria
  /\ ~dry_run
  /\ IF use_sequential
     THEN pc' = "seq" /\ i' = 1
     ELSE pc' = "pool_submit" /\ i' = 0
  /\ UNCHANGED <<config, dry_run, disk, exitCode, aria_path, lists, results,
                 reports, cur, pool, ghost, aria, run, prev, gdc,
                 orch>>

\* ------------------------------------------------- sequential-streamed mode
\* wget_download(url, outdir, log_dir, stream=True): the shell runs
\* `wget ... 2>&1 | tee log`; subprocess.run returns the status of the
\* pipeline, which is the status of its last command, tee
stream_returncode(w, t) == t

seq_fetch ==
  /\ pc = "seq"
  /\ i <= Len(to_download)
  /\ attempts' = [attempts EXCEPT ![i] = @ + 1]
  /\ fetched' = fetched \cup { to_download[i] }
  /\ LET url == to_download[i] IN
     \/ \E w \in WgetExitCodes, t \in TeeExitCodes :
          \E f \in (IF w = 0 THEN SuccessFiles(url) ELSE { <<>> }) :
            /\ wgetExit' = [wgetExit EXCEPT ![i] = w]
            /\ made' = [made EXCEPT ![i] = IF w = 0 THEN {f} ELSE {}]
            /\ fs' = fs \cup made'[i]
            /\ log_writes' = IF t = 0 THEN log_writes \cup { wget_name(url) } ELSE log_writes
            /\ cur' = [name |-> wget_name(url), code |-> stream_returncode(w, t)]
            /\ pc' = "seq_report"
            /\ UNCHANGED exitCode
     \* subprocess.run raised; the handler wrote the log
     \/ /\ cur' = [name |-> wget_name(url), code |-> ExcCode]
        /\ log_writes' = log_writes \cup { wget_name(url) }
        /\ pc' = "seq_report"
        /\ UNCHANGED <<wgetExit, made, fs, exitCode>>
     \* subprocess.run raised and so did open(log_path) in the handler:
     \* nothing in main catches it
     \/ /\ pc' = "crashed"
        /\ exitCode' = 1
        /\ UNCHANGED <<wgetExit, made, fs, log_writes, cur>>
  /\ UNCHANGED <<config, dry_run, aria_path, lists, results, reports, i,
                 pool, aria, run, prev, gdc,
                 orch>>

seq_reportRetry ==
  /\ pc = "seq_report"
  /\ results' = Append(results, [name |-> cur.name, ok |-> (cur.code = 0),
                                 code |-> cur.code])
  /\ reports' = Append(reports, [idx |-> i, task |-> i, ok |-> (cur.code = 0)])
  /\ i' = IF cur.code # 0 /\ attempts[i] < 2 THEN i ELSE i + 1
  /\ pc' = "seq"
  /\ UNCHANGED <<config, dry_run, disk, exitCode, aria_path, lists, cur,
                 pool, ghost, aria, run, prev, gdc,
                 orch>>

seq_reportPrepend ==
  /\ pc = "seq_report"
  /\ results' = <<[name |-> cur.name, ok |-> (cur.code = 0),
                   code |-> cur.code]>> \o results
  /\ reports' = Append(reports, [idx |-> i, task |-> i, ok |-> (cur.code = 0)])
  /\ i' = i + 1
  /\ pc' = "seq"
  /\ UNCHANGED <<config, dry_run, disk, exitCode, aria_path, lists, cur,
                 pool, ghost, aria, run, prev, gdc,
                 orch>>

\* print(f"[{i}/{total}] ..."); results.append((name, ok, code))
seq_report ==
  /\ pc = "seq_report"
  /\ results' = Append(results, [name |-> cur.name, ok |-> (cur.code = 0),
                                 code |-> cur.code])
  /\ reports' = Append(reports, [idx |-> i, task |-> i, ok |-> (cur.code = 0)])
  /\ i' = i + 1
  /\ pc' = "seq"
  /\ UNCHANGED <<config, dry_run, disk, exitCode, aria_path, lists, cur,
                 pool, ghost, aria, run, prev, gdc,
                 orch>>

seq_end ==
  /\ pc = "seq"
  /\ i > Len(to_download)
  /\ pc' = "summary"
  /\ UNCHANGED <<config, dry_run, disk, exitCode, aria_path, lists, results,
                 reports, i, cur, pool, ghost, aria, run, prev, gdc,
                 orch>>

\* ---------------------------------------------------------- thread-pool mode
max_workersOffByOne == Max(1, concurrency) + 1

\* ThreadPoolExecutor(max_workers=max(1, args.concurrency))
max_workers == Max(1, concurrency)

Running == { k \in 1..Len(fut) : fut[k] = "running" }

Queued == { k \in 1..Len(fut) : fut[k] = "queued" }

Unsubmitted == { k \in 1..Len(fut) : fut[k] = "none" }

Least(S) == CHOOSE k \in S : \A m \in S : k <= m

\* exe.submit(wget_download, url, outdir, log_dir, False), in list order
pool_submit ==
  /\ pc = "pool_submit"
  /\ Unsubmitted # {}
  /\ fut' = [fut EXCEPT ![Least(Unsubmitted)] = "queued"]
  /\ UNCHANGED <<config, dry_run, disk, pc, exitCode, aria_path, lists,
                 results, reports, i, cur, ret, early, late, ghost, aria,
                 run, prev, gdc,
                 orch>>

\* a pool thread takes the oldest queued work item and calls wget_download
worker_start ==
  /\ pc \in {"pool_submit", "pool_wait"}
  /\ Queued # {}
  /\ Cardinality(Running) < max_workers
  /\ LET k == Least(Queued) IN
       /\ fut' = [fut EXCEPT ![k] = "running"]
       /\ attempts' = [attempts EXCEPT ![k] = @ + 1]
       /\ fetched' = fetched \cup { to_download[k] }
  /\ UNCHANGED <<config, dry_run, disk, pc, exitCode, aria_path, lists,
                 results, reports, i, cur, ret, early, late, wgetExit, made,
                 aria, run, prev, gdc,
                 orch>>

\* wget_download(url, outdir, log_dir, False) ends in a pool thread: wget
\* exited, or an exception was caught and logged (code 3), or the handler's
\* own log write raised and the exception is kept in the future
worker_finish(k) ==
  /\ pc \in {"pool_submit", "pool_wait"}
  /\ k \in Running
  /\ LET url == to_download[k] IN
     \/ \E w \in WgetExitCodes :
          \E f \in (IF w = 0 THEN SuccessFiles(url) ELSE { <<>> }) :
            /\ wgetExit' = [wgetExit EXCEPT ![k] = w]
            /\ made' = [made EXCEPT ![k] = IF w = 0 THEN {f} ELSE {}]
            /\ fs' = fs \cup made'[k]
            /\ log_writes' = log_writes \cup { wget_name(url) }
            /\ fut' = [fut EXCEPT ![k] = "returned"]
            /\ ret' = [ret EXCEPT ![k] = w]
     \/ /\ fut' = [fut EXCEPT ![k] = "returned"]
        /\ ret' = [ret EXCEPT ![k] = ExcCode]
        /\ log_writes' = log_writes \cup { wget_name(url) }
        /\ UNCHANGED <<wgetExit, made, fs>>
     \/ /\ fut' = [fut EXCEPT ![k] = "raised"]
        /\ UNCHANGED <<wgetExit, made, fs, log_writes, ret>>
  \* futures done before as_completed starts are yielded first, in any
  \* order; the others are yielded in the order they complete. Both lists
  \* are kept in the order the fetches ended
  /\ IF pc = "pool_submit"
     THEN early' = Append(early, k) /\ UNCHANGED late
     ELSE late' = Append(late, k) /\ UNCHANGED early
  /\ UNCHANGED <<config, dry_run, pc, exitCode, aria_path, lists, results,
                 reports, i, cur, attempts, fetched, aria, run, prev, gdc,
                 orch>>

\* the dict comprehension is complete: the as_completed loop begins
as_completed_start ==
  /\ pc = "pool_submit"
  /\ Unsubmitted = {}
  /\ pc' = "pool_wait"
  /\ UNCHANGED <<config, dry_run, disk, exitCode, aria_path, lists, results,
                 reports, i, cur, pool, ghost, aria, run, prev, gdc,
                 orch>>

\* the entry main appends for the future of task k
pool_result(k) ==
  IF fut[k] = "raised"
  THEN [name |-> basename(to_download[k]), ok |-> FALSE, code |-> ExcCode]
  ELSE [name |-> wget_name(to_download[k]), ok |-> (ret[k] = 0),
        code |-> ret[k]]

\* one iteration of `for i, fut in enumerate(as_completed(...), 1)`
pool_report ==
  /\ pc = "pool_wait"
  /\ \E k \in (IF early # <<>> THEN Range(early)
               ELSE IF late # <<>> THEN {Head(late)} ELSE {}) :
       /\ results' = Append(results, pool_result(k))
       /\ reports' = Append(reports, [idx |-> i + 1, task |-> k,
                                      ok |-> pool_result(k).ok])
       /\ IF early # <<>>
          THEN early' = SelectSeq(early, LAMBDA x : x # k) /\ UNCHANGED late
          ELSE late' = Tail(late) /\ UNCHANGED early
  /\ i' = i + 1
  /\ UNCHANGED <<config, dry_run, disk, pc, exitCode, aria_path, lists, cur,
                 fut, ret, ghost, aria, run, prev, gdc,
                 orch>>

pool_endEarly ==
  /\ pc = "pool_wait"
  /\ \A k \in 1..Len(fut) : fut[k] \in {"returned", "raised"}
  /\ pc' = "summary"
  /\ UNCHANGED <<config, dry_run, disk, exitCode, aria_path, lists, results,
                 reports, i, cur, pool, ghost, aria, run, prev, gdc,
                 orch>>

\* as_completed is exhausted and the executor has shut down
pool_end ==
  /\ pc = "pool_wait"
  /\ \A k \in 1..Len(fut) : fut[k] \in {"returned", "raised"}
  /\ early = <<>>
  /\ late = <<>>
  /\ pc' = "summary"
  /\ UNCHANGED <<config, dry_run, disk, exitCode, aria_path, lists, results,
                 reports, i, cur, pool, ghost, aria, run, prev, gdc,
                 orch>>

\* ------------------------------------------------------------------ summary
\* total = len(to_download)
total == Len(to_download)

succAll == Len(results)

succ == Cardinality({ k \in 1..Len(results) : results[k].ok })

fail == Cardinality({ k \in 1..Len(results) : ~results[k].ok })

\* the summary is printed and main returns
summary ==
  /\ pc = "summary"
  /\ pc' = "done"
  /\ exitCode' = 0
  /\ UNCHANGED <<config, dry_run, disk, aria_path, lists, results, reports,
                 i, cur, pool, ghost, aria, run, prev, gdc,
                 orch>>

\* ---------------------------------------------------------------- next run
\* every task of the run was fetched by wget with exit 0 and left a file
\* under the URL's last segment, with or without the canonical suffix
FullySucceeded ==
  /\ pc = "done"
  /\ \A k \in 1..Len(to_download) :
       /\ wgetExit[k] = 0
       /\ made[k] # {}
       /\ made[k] \subseteq { basename(to_download[k]),
                              basename(to_download[k]) \o <<".svs">> }

\* the program is started again on the same URL file and output directory
\* with the same flags, after a dry run (then without --dry-run) or after a
\* run in which every task succeeded
restart ==
  /\ run = 1
  /\ \/ pc = "exited" /\ exitCode = 0 /\ dry_run /\ urls # <<>>
     \/ FullySucceeded
  /\ run' = 2
  /\ prev' = [dry |-> dry_run, allOk |-> FullySucceeded,
              to_download |-> to_download, skipped |-> skipped]
  /\ dry_run' = FALSE
  /\ log_writes' = {}
  /\ pc' = "start"
  /\ exitCode' = 0 - 1
  /\ aria_path' = FALSE
  /\ to_download' = <<>>
  /\ skipped' = <<>>
  /\ fs_enum' = fs
  /\ results' = <<>>
  /\ reports' = <<>>
  /\ i' = 0
  /\ cur' = NoCur
  /\ fut' = <<>>
  /\ ret' = <<>>
  /\ early' = <<>>
  /\ late' = <<>>
  /\ attempts' = <<>>
  /\ wgetExit' = <<>>
  /\ made' = <<>>
  /\ fetched' = {}
  /\ ariaInput' = <<>>
  /\ ariaRuns' = 0
  /\ UNCHANGED <<config, fs, gdc, orch>>

Next ==
  \/ check_wget_exists
  \/ find_aria
  \/ load_urls
  \/ enumerate
  \/ aria_branch
  \/ dry_run_report
  \/ start_downloads
  \/ seq_fetch
  \/ seq_report
  \/ seq_end
  \/ pool_submit
  \/ worker_start
  \/ \E k \in 1..Len(to_download) : worker_finish(k)
  \/ as_completed_start
  \/ pool_report
  \/ pool_end
  \/ summary

\* one invocation of gtex.py
Spec == Init /\ [][Next]_vars

\* two invocations in a row of the wget strategies or of the dry run
TwoRunsURLS ==
  { <<"x", "/", "a">>, <<"b", "/">>, <<"/">> }

InitTwoRuns ==
  /\ urls \in ListsOf(TwoRunsURLS, MaxUrls)
  /\ skip_existing \in BOOLEAN
  /\ dry_run \in BOOLEAN
  /\ sequential \in BOOLEAN
  /\ use_aria = FALSE
  /\ concurrency = 2
  /\ fs \in InitDirs
  /\ log_writes = {}
  /\ server_names = {"url", "svs"}
  /\ wget_on_path \in BOOLEAN
  /\ run = 1
  /\ prev = NoPrev
  /\ Fresh
  /\ GdcOff
  /\ MainOff

NextTwoRuns ==
  \/ check_wget_exists
  \/ find_aria
  \/ load_urls
  \/ enumerate
  \/ dry_run_report
  \/ start_downloads
  \/ seq_fetch
  \/ seq_report
  \/ seq_end
  \/ pool_submit
  \/ worker_start
  \/ \E k \in 1..Len(to_download) : worker_finish(k)
  \/ as_completed_start
  \/ pool_report
  \/ pool_end
  \/ summary
  \/ restart

SpecTwoRuns == InitTwoRuns /\ [][NextTwoRuns]_vars

\* one invocation that takes the thread-pool strategy, on longer URL lists
PoolURLS ==
  { <<"x", "/", "a">>, <<"b", "/">> }

InitPool ==
  /\ urls \in ListsOf(PoolURLS, MaxPoolUrls)
  /\ skip_existing = TRUE
  /\ dry_run = FALSE
  /\ sequential = FALSE
  /\ use_aria = FALSE
  /\ concurrency \in 2..MaxConc
  /\ fs = {}
  /\ log_writes = {}
  /\ server_names = {"url"}
  /\ wget_on_path \in BOOLEAN
  /\ run = 1
  /\ prev = NoPrev
  /\ Fresh
  /\ GdcOff
  /\ MainOff

NextPool ==
  \/ check_wget_exists
  \/ find_aria
  \/ load_urls
  \/ enumerate
  \/ start_downloads
  \/ pool_submit
  \/ worker_start
  \/ \E k \in 1..Len(to_download) : worker_finish(k)
  \/ as_completed_start
  \/ pool_report
  \/ pool_end
  \/ summary

SpecPool == InitPool /\ [][NextPool]_vars

\* one invocation of a wget strategy, on the short URL lists and on a list
\* of three plain names
ExampleUrls == << <<"a">>, <<"b">>, <<"c">> >>

InitSummary ==
  /\ urls \in ListsOf(URLS, MaxUrls) \cup { ExampleUrls }
  /\ skip_existing \in BOOLEAN
  /\ dry_run = FALSE
  /\ sequential \in BOOLEAN
  /\ use_aria = FALSE
  /\ concurrency = 2
  /\ fs \in InitDirs
  /\ log_writes = {}
  /\ server_names = {"url"}
  /\ wget_on_path \in BOOLEAN
  /\ run = 1
  /\ prev = NoPrev
  /\ Fresh
  /\ GdcOff
  /\ MainOff

NextSummary ==
  \/ check_wget_exists
  \/ find_aria
  \/ load_urls
  \/ enumerate
  \/ start_downloads
  \/ seq_fetch
  \/ seq_report
  \/ seq_end
  \/ pool_submit
  \/ worker_start
  \/ \E k \in 1..Len(to_download) : worker_finish(k)
  \/ as_completed_start
  \/ pool_report
  \/ pool_end
  \/ summary

SpecSummary == InitSummary /\ [][NextSummary]_vars

\* the same invocation when the main thread and the pool threads keep being
\* scheduled and every wget process terminates
FairPool ==
  /\ WF_vars(check_wget_exists)
  /\ WF_vars(find_aria)
  /\ WF_vars(load_urls)
  /\ WF_vars(enumerate)
  /\ WF_vars(start_downloads)
  /\ WF_vars(pool_submit)
  /\ WF_vars(worker_start)
  /\ \A k \in 1..MaxPoolUrls : WF_vars(worker_finish(k))
  /\ WF_vars(as_completed_start)
  /\ WF_vars(pool_report)
  /\ WF_vars(pool_end)
  /\ WF_vars(summary)

InitPoolFair ==
  /\ urls \in ListsOf(PoolURLS, MaxFairUrls)
  /\ skip_existing = TRUE
  /\ dry_run = FALSE
  /\ sequential = FALSE
  /\ use_aria = FALSE
  /\ concurrency = 2
  /\ fs = {}
  /\ log_writes = {}
  /\ server_names = {"url"}
  /\ wget_on_path \in BOOLEAN
  /\ run = 1
  /\ prev = NoPrev
  /\ Fresh
  /\ GdcOff
  /\ MainOff

SpecPoolFair == InitPoolFair /\ [][NextPool]_vars /\ FairPool

\* ==================================================================== gdc.py
Min(a, b) == IF a <= b THEN a ELSE b

\* the query result: n files with distinct ids and names
GdcFiles(n) ==
  [k \in 1..n |-> [file_id |-> k, file_name |-> <<"slide", k>>]]

\* names that may be in the output directory before the run
PresentNames == { <<"slide", 1>>, <<"slide", 3>> }

\* gtex.py is not run
GtexOff ==
  /\ urls = <<>>
  /\ skip_existing = FALSE
  /\ dry_run = FALSE
  /\ sequential = FALSE
  /\ use_aria = FALSE
  /\ concurrency = 0
  /\ fs = {}
  /\ log_writes = {}
  /\ server_names = {}
  /\ wget_on_path = FALSE
  /\ pc = "off"
  /\ exitCode = 0 - 1
  /\ aria_path = FALSE
  /\ to_download = <<>>
  /\ skipped = <<>>
  /\ fs_enum = {}
  /\ results = <<>>
  /\ reports = <<>>
  /\ i = 0
  /\ cur = NoCur
  /\ fut = <<>>
  /\ ret = <<>>
  /\ early = <<>>
  /\ late = <<>>
  /\ attempts = <<>>
  /\ wgetExit = <<>>
  /\ made = <<>>
  /\ fetched = {}
  /\ ariaInput = <<>>
  /\ ariaRuns = 0
  /\ run = 1
  /\ prev = NoPrev

\* download_slides(files, output_dir, overwrite) or
\* download_slides_batch(files, output_dir, overwrite) is about to be called
InitGdc ==
  /\ GtexOff
  /\ MainOff
  /\ \E n \in 0..MaxFiles : gdc_files = GdcFiles(n)
  /\ gdc_overwrite \in BOOLEAN
  /\ \/ gdc_method = "1" /\ BATCH_SIZE = DefaultBatchSize
     \/ gdc_method = "2" /\ BATCH_SIZE \in (1..MaxBatch) \cup {DefaultBatchSize}
  /\ gdc_fs \in SUBSET PresentNames
  /\ gdc_pc = "start"
  /\ gdc_idx = 0
  /\ gdc_i = 0
  /\ gdc_calls = <<>>
  /\ gdc_out = <<>>
  /\ gdc_removed = {}

\* main: `if method == "2": download_slides_batch(files) else:
\* download_slides(files)`; either function creates the directory and
\* imports gdcapiwrapper, and raises ImportError when it is not installed
gdc_main ==
  /\ gdc_pc = "start"
  /\ \E importable \in BOOLEAN :
       IF ~importable
       THEN gdc_pc' = "raised" /\ UNCHANGED <<gdc_idx, gdc_i>>
       ELSE IF gdc_method = "2"
       THEN gdc_pc' = "batch" /\ gdc_i' = 0 /\ UNCHANGED gdc_idx
       ELSE gdc_pc' = "individual" /\ gdc_idx' = 1 /\ UNCHANGED gdc_i
  /\ UNCHANGED <<gtex, orch, gdc_files, gdc_overwrite, gdc_method, BATCH_SIZE,
                 gdc_fs, gdc_calls, gdc_out, gdc_removed>>

\* ---------------------------------------------------------- download_slides
\* one printed outcome line
Outcome(task, what) == [task |-> task, outcome |-> what]

\* one invocation of Data.download or Data.download_multiple
Call(fn, ids, ok, present, num, of) ==
  [fn |-> fn, ids |-> ids, ok |-> ok, present |-> present,
   batch_num |-> num, total_batches |-> of]

download_slides_checkNoRemove ==
  /\ gdc_pc = "individual"
  /\ gdc_idx <= Len(gdc_files)
  /\ LET file_name == gdc_files[gdc_idx].file_name IN
       IF file_name \in gdc_fs /\ ~gdc_overwrite
       THEN /\ gdc_out' = Append(gdc_out, Outcome(gdc_idx, "skipped"))
            /\ gdc_idx' = gdc_idx + 1
            /\ UNCHANGED <<gdc_pc, gdc_fs, gdc_removed>>
       ELSE IF file_name \in gdc_fs /\ gdc_overwrite
       THEN \E removed \in BOOLEAN :
              IF removed
              THEN /\ gdc_pc' = "fetch"
                   /\ UNCHANGED <<gdc_out, gdc_idx, gdc_fs, gdc_removed>>
              ELSE /\ gdc_out' = Append(gdc_out,
                                        Outcome(gdc_idx, "remove_failed"))
                   /\ gdc_idx' = gdc_idx + 1
                   /\ UNCHANGED <<gdc_pc, gdc_fs, gdc_removed>>
       ELSE /\ gdc_pc' = "fetch"
            /\ UNCHANGED <<gdc_out, gdc_idx, gdc_fs, gdc_removed>>
  /\ UNCHANGED <<gtex, orch, gdc_files, gdc_overwrite, gdc_method, BATCH_SIZE,
                 gdc_i, gdc_calls>>

download_slides_checkNoContinue ==
  /\ gdc_pc = "individual"
  /\ gdc_idx <= Len(gdc_files)
  /\ LET file_name == gdc_files[gdc_idx].file_name IN
       IF file_name \in gdc_fs /\ ~gdc_overwrite
       THEN /\ gdc_out' = Append(gdc_out, Outcome(gdc_idx, "skipped"))
            /\ gdc_idx' = gdc_idx + 1
            /\ UNCHANGED <<gdc_pc, gdc_fs, gdc_removed>>
       ELSE IF file_name \in gdc_fs /\ gdc_overwrite
       THEN \E removed \in BOOLEAN :
              IF removed
              THEN /\ gdc_fs' = gdc_fs \ {file_name}
                   /\ gdc_removed' = gdc_removed \cup {file_name}
                   /\ gdc_pc' = "fetch"
                   /\ UNCHANGED <<gdc_out, gdc_idx>>
              ELSE /\ gdc_out' = Append(gdc_out,
                                        Outcome(gdc_idx, "remove_failed"))
                   /\ gdc_pc' = "fetch"
                   /\ UNCHANGED <<gdc_idx, gdc_fs, gdc_removed>>
       ELSE /\ gdc_pc' = "fetch"
            /\ UNCHANGED <<gdc_out, gdc_idx, gdc_fs, gdc_removed>>
  /\ UNCHANGED <<gtex, orch, gdc_files, gdc_overwrite, gdc_method, BATCH_SIZE,
                 gdc_i, gdc_calls>>

\* the existence tests of one iteration, and os.remove under overwrite
download_slides_check ==
  /\ gdc_pc = "individual"
  /\ gdc_idx <= Len(gdc_files)
  /\ LET file_name == gdc_files[gdc_idx].file_name IN
       IF file_name \in gdc_fs /\ ~gdc_overwrite
       THEN /\ gdc_out' = Append(gdc_out, Outcome(gdc_idx, "skipped"))
            /\ gdc_idx' = gdc_idx + 1
            /\ UNCHANGED <<gdc_pc, gdc_fs, gdc_removed>>
       ELSE IF file_name \in gdc_fs /\ gdc_overwrite
       THEN \E removed \in BOOLEAN :
              IF removed
              THEN /\ gdc_fs' = gdc_fs \ {file_name}
                   /\ gdc_removed' = gdc_removed \cup {file_name}
                   /\ gdc_pc' = "fetch"
                   /\ UNCHANGED <<gdc_out, gdc_idx>>
              ELSE /\ gdc_out' = Append(gdc_out,
                                        Outcome(gdc_idx, "remove_failed"))
                   /\ gdc_idx' = gdc_idx + 1
                   /\ UNCHANGED <<gdc_pc, gdc_fs, gdc_removed>>
       ELSE /\ gdc_pc' = "fetch"
            /\ UNCHANGED <<gdc_out, gdc_idx, gdc_fs, gdc_removed>>
  /\ UNCHANGED <<gtex, orch, gdc_files, gdc_overwrite, gdc_method, BATCH_SIZE,
                 gdc_i, gdc_calls>>

\* Data.download(uuid=file_id, path=output_dir, name=file_name)
download_slides_fetch ==
  /\ gdc_pc = "fetch"
  /\ LET file == gdc_files[gdc_idx] IN
       \E ok \in BOOLEAN :
         /\ gdc_calls' = Append(gdc_calls,
              Call("download", <<file.file_id>>, ok,
                   file.file_name \in gdc_fs, 0, 0))
         /\ gdc_fs' = IF ok THEN gdc_fs \cup {file.file_name} ELSE gdc_fs
         /\ gdc_out' = Append(gdc_out,
              Outcome(gdc_idx, IF ok THEN "complete" ELSE "failed"))
  /\ gdc_idx' = gdc_idx + 1
  /\ gdc_pc' = "individual"
  /\ UNCHANGED <<gtex, orch, gdc_files, gdc_overwrite, gdc_method, BATCH_SIZE,
                 gdc_i, gdc_removed>>

\* the loop is over and download_slides returns
download_slides_return ==
  /\ gdc_pc = "individual"
  /\ gdc_idx > Len(gdc_files)
  /\ gdc_pc' = "complete"
  /\ UNCHANGED <<gtex, orch, gdc_files, gdc_overwrite, gdc_method, BATCH_SIZE,
                 gdc_fs, gdc_idx, gdc_i, gdc_calls, gdc_out, gdc_removed>>

\* ---------------------------------------------------- download_slides_batch
\* file_ids = [f["file_id"] for f in files]
file_ids == [k \in 1..Len(gdc_files) |-> gdc_files[k].file_id]

batchShort(k) ==
  SubSeq(file_ids, k + 1, Min(k + BATCH_SIZE - 1, Len(file_ids)))

\* batch = file_ids[i : i + BATCH_SIZE]
batch(k) == SubSeq(file_ids, k + 1, Min(k + BATCH_SIZE, Len(file_ids)))

\* batch_num = (i // BATCH_SIZE) + 1
batch_num(k) == (k \div BATCH_SIZE) + 1

\* total_batches = (total + BATCH_SIZE - 1) // BATCH_SIZE
total_batches == (Len(file_ids) + BATCH_SIZE - 1) \div BATCH_SIZE

download_slides_batch_stepBreak ==
  /\ gdc_pc = "batch"
  /\ gdc_i < Len(file_ids)
  /\ \E ok \in BOOLEAN :
       /\ gdc_calls' = Append(gdc_calls,
            Call("download_multiple", batch(gdc_i), ok, FALSE,
                 batch_num(gdc_i), total_batches))
       /\ gdc_fs' = IF ok THEN gdc_fs \cup { <<"archive", batch_num(gdc_i)>> }
                    ELSE gdc_fs
       /\ gdc_out' = Append(gdc_out,
            Outcome(batch_num(gdc_i),
                    IF ok THEN "batch_downloaded" ELSE "batch_failed"))
  /\ gdc_i' = IF gdc_out'[Len(gdc_out')].outcome = "batch_failed"
              THEN Len(file_ids)
              ELSE gdc_i + BATCH_SIZE
  /\ UNCHANGED <<gtex, orch, gdc_files, gdc_overwrite, gdc_method, BATCH_SIZE,
                 gdc_pc, gdc_idx, gdc_removed>>

\* one iteration of `for i in range(0, total, BATCH_SIZE)`
download_slides_batch_step ==
  /\ gdc_pc = "batch"
  /\ gdc_i < Len(file_ids)
  /\ \E ok \in BOOLEAN :
       /\ gdc_calls' = Append(gdc_calls,
            Call("download_multiple", batch(gdc_i), ok, FALSE,
                 batch_num(gdc_i), total_batches))
       /\ gdc_fs' = IF ok THEN gdc_fs \cup { <<"archive", batch_num(gdc_i)>> }
                    ELSE gdc_fs
       /\ gdc_out' = Append(gdc_out,
            Outcome(batch_num(gdc_i),
                    IF ok THEN "batch_downloaded" ELSE "batch_failed"))
  /\ gdc_i' = gdc_i + BATCH_SIZE
  /\ UNCHANGED <<gtex, orch, gdc_files, gdc_overwrite, gdc_method, BATCH_SIZE,
                 gdc_pc, gdc_idx, gdc_removed>>

\* the range is exhausted and download_slides_batch returns
download_slides_batch_return ==
  /\ gdc_pc = "batch"
  /\ gdc_i >= Len(file_ids)
  /\ gdc_pc' = "complete"
  /\ UNCHANGED <<gtex, orch, gdc_files, gdc_overwrite, gdc_method, BATCH_SIZE,
                 gdc_fs, gdc_idx, gdc_i, gdc_calls, gdc_out, gdc_removed>>

\* main prints "Download complete!" and returns
gdc_complete ==
  /\ gdc_pc = "complete"
  /\ gdc_pc' = "done"
  /\ UNCHANGED <<gtex, orch, gdc_files, gdc_overwrite, gdc_method, BATCH_SIZE,
                 gdc_fs, gdc_idx, gdc_i, gdc_calls, gdc_out, gdc_removed>>

NextGdc ==
  \/ gdc_main
  \/ download_slides_check
  \/ download_slides_fetch
  \/ download_slides_return
  \/ download_slides_batch_step
  \/ download_slides_batch_return
  \/ gdc_complete

\* the download step of one invocation of gdc.py
SpecGdc == InitGdc /\ [][NextGdc]_vars

\* one invocation of either program
InitAll == InitSummary \/ InitGdc

NextAll == NextSummary \/ NextGdc

SpecAll == InitAll /\ [][NextAll]_vars


\* ======================================================== main.py
\* strings that are compared character by character are tuples of characters
opt_dry_run == <<"-", "-", "d", "r", "y", "-", "r", "u", "n">>

opt_y == <<"-", "y">>

opt_yes == <<"-", "-", "y", "e", "s">>

opt_method == <<"-", "-", "m", "e", "t", "h", "o", "d">>

opt_preview == <<"-", "-", "p", "r", "e", "v", "i", "e", "w">>

opt_h == <<"-", "h">>

opt_help == <<"-", "-", "h", "e", "l", "p">>

opt_max == <<"-", "-", "m", "a", "x">>

Digits == <<"1", "2", "3", "4", "5", "6", "7", "8", "9">>

\* str(n) of a number 1..9
str(n) == <<Digits[n]>>

\* the option strings of the parser of gdc.py; argparse adds -h/--help
LongOptions == {opt_dry_run, opt_yes, opt_method, opt_preview, opt_help}

ShortOptions == {opt_y, opt_h}

\* the options of gdc.py that take one value
TakesValue == {opt_method, opt_preview}

IsPrefix(p, s) == Len(p) <= Len(s) /\ SubSeq(s, 1, Len(p)) = p

\* the options an argument of the command line stands for: itself, or the
\* long options it abbreviates
OptionsFor(arg) ==
  IF arg \in LongOptions \cup ShortOptions
  THEN {arg}
  ELSE IF Len(arg) > 2 /\ SubSeq(arg, 1, 2) = <<"-", "-">>
       THEN {o \in LongOptions : IsPrefix(arg, o)}
       ELSE {}

\* parser.parse_args() of gdc.py on argv[k..]: exit status 0 when every
\* argument is recognized, 2 on an unrecognized or ambiguous argument or a
\* missing value
RECURSIVE parse_args(_, _)
parse_args(argv, k) ==
  IF k > Len(argv)
  THEN 0
  ELSE IF Cardinality(OptionsFor(argv[k])) # 1
       THEN 2
       ELSE IF OptionsFor(argv[k]) \subseteq TakesValue
            THEN IF k + 1 > Len(argv) THEN 2 ELSE parse_args(argv, k + 2)
            ELSE parse_args(argv, k + 1)

\* the arguments run_gdc puts after the script path
run_gdc_cmd(dry, yes, n) ==
  (IF dry THEN <<opt_dry_run>> ELSE <<>>)
    \o (IF yes THEN <<opt_y>> ELSE <<>>)
    \o (IF n > 0 THEN <<opt_max, str(n)>> ELSE <<>>)

default_out == <<"breast_wsi_urls.txt">>

\* what the user may type at the prompt for the URL list file; the empty
\* answer stands for Enter
OutUrlsInputs == {<<>>, default_out, <<"my_urls.txt">>}

\* _normalize_path(p, default): the absolute path, or the value unchanged
\* when Path.resolve raised (the working directory no longer exists)
normalize_path(p, default, resolved) ==
  LET val == IF p = <<>> THEN default ELSE p
  IN  IF resolved THEN <<"cwd">> \o val ELSE val

tmp_urls == <<"tmp", "urls">>

tmp_meta == <<"tmp", "meta">>

InitMain ==
  /\ GtexOff
  /\ GdcOff
  /\ main_pc = "start"
  /\ selected = {}
  /\ max_images = 0
  /\ out_urls = <<>>
  /\ urlfile = <<>>
  /\ cleanup = FALSE
  /\ tmpfiles = {}
  /\ created = {}
  /\ max_n = 0
  /\ cmd = <<>>
  /\ returncode = 0 - 1

\* where main goes on after the GTEx part
after_gtex == IF "GDC" \in selected THEN "gdc" ELSE "finished"

\* ask_choices and the test on its answer
ask_choices ==
  /\ main_pc = "start"
  /\ \E sel \in SUBSET {"GTEx", "GDC"} :
       /\ selected' = sel
       /\ main_pc' = IF sel = {} THEN "finished"
                     ELSE IF "GTEx" \in sel THEN "gtex_inputs" ELSE "gdc"
  /\ UNCHANGED <<gtex, gdc, max_images, out_urls, urlfile, cleanup, tmpfiles,
                 created, max_n, cmd, returncode>>

\* the prompts of the GTEx part
gtex_inputs ==
  /\ main_pc = "gtex_inputs"
  /\ \E raw \in OutUrlsInputs, n \in 0..MaxImages, resolved \in BOOLEAN :
       /\ max_images' = n
       /\ out_urls' = normalize_path(raw, default_out, resolved)
  /\ main_pc' = "prepare"
  /\ UNCHANGED <<gtex, gdc, selected, urlfile, cleanup, tmpfiles, created,
                 max_n, cmd, returncode>>

\* run_prepare_gtex; generate_gtex_urls and prepare_urls.py may fail, and
\* main calls run_prepare_gtex outside any try
run_prepare_gtex ==
  /\ main_pc = "prepare"
  /\ \E ok \in BOOLEAN :
       IF max_images > 0 /\ out_urls = default_out
       THEN /\ tmpfiles' = tmpfiles \cup {tmp_urls, tmp_meta}
            /\ created' = created \cup {tmp_urls, tmp_meta}
            /\ IF ok
               THEN urlfile' = tmp_urls /\ cleanup' = TRUE
                    /\ main_pc' = "run_gtex"
               ELSE UNCHANGED <<urlfile, cleanup>> /\ main_pc' = "raised"
       ELSE /\ UNCHANGED <<tmpfiles, created>>
            /\ IF ok
               THEN urlfile' = out_urls /\ cleanup' = FALSE
                    /\ main_pc' = "run_gtex"
               ELSE UNCHANGED <<urlfile, cleanup>> /\ main_pc' = "raised"
  /\ UNCHANGED <<gtex, gdc, selected, max_images, out_urls, max_n, cmd,
                 returncode>>

\* try: run_gtex(...) finally: the cleanup; gtex.py ends with status 0 or
\* subprocess.run(check=True) raises
main_run_gtex ==
  /\ main_pc = "run_gtex"
  /\ \E ok \in BOOLEAN :
       main_pc' = IF ok THEN after_gtex ELSE "raised"
  /\ tmpfiles' = IF cleanup THEN tmpfiles \ {urlfile} ELSE tmpfiles
  /\ UNCHANGED <<gtex, gdc, selected, max_images, out_urls, urlfile, cleanup,
                 created, max_n, cmd, returncode>>

\* the prompts of the GDC part and run_gdc; gdc.py ends with status 2 when
\* its parser rejects the command line, and with 0 or 1 otherwise
run_gdc ==
  /\ main_pc = "gdc"
  /\ \E dr \in BOOLEAN, y \in BOOLEAN, n \in 0..MaxImages :
       /\ max_n' = n
       /\ cmd' = run_gdc_cmd(dr, ~dr /\ y, n)
  /\ returncode' \in IF parse_args(cmd', 1) = 0 THEN {0, 1} ELSE {2}
  /\ main_pc' = IF returncode' = 0 THEN "finished" ELSE "raised"
  /\ UNCHANGED <<gtex, gdc, selected, max_images, out_urls, urlfile, cleanup,
                 tmpfiles, created>>

NextMain ==
  \/ ask_choices
  \/ gtex_inputs
  \/ run_prepare_gtex
  \/ main_run_gtex
  \/ run_gdc

\* one run of main.py
SpecMain == InitMain /\ [][NextMain]_vars


\* ================================================================== claims
\* the enumeration loop has run in this invocation
Enumerated ==
  pc \in {"branch", "seq", "seq_report", "pool_submit", "pool_wait",
          "summary", "done"}

\* one of the two wget strategies was entered and the process has ended
StrategyEnded ==
  /\ ~use_aria
  /\ ~dry_run
  /\ pc \in {"done", "crashed"}

ReportsOf(k) == { r \in 1..Len(reports) : reports[r].task = k }

\* C1: when a run of the sequential or the thread-pool strategy has ended,
\* results holds exactly one entry per element of to_download, whatever the
\* fetch outcomes were (exit 0, non-zero exit, exception).
C1_OneResultPerTask ==
  StrategyEnded =>
    /\ Len(results) = Len(to_download)
    /\ \A k \in 1..Len(to_download) : Cardinality(ReportsOf(k)) = 1

\* C2: the failure of one task (non-zero exit, or an exception while
\* invoking wget or while writing its log) never keeps another task of the
\* run from being passed to wget_download.
C2_FailureIsolated ==
  StrategyEnded => \A k \in 1..Len(to_download) : attempts[k] >= 1

\* C3: after enumeration no input reference is both skipped and to be
\* downloaded, every input reference is one of the two, and the two lists
\* together hold each distinct input reference once.
C3_PartitionDeduplicated ==
  Enumerated =>
    /\ \A u \in Range(urls) :
         ~(u \in Range(to_download) /\ basename(u) \in Range(skipped))
    /\ \A u \in Range(urls) :
         u \in Range(to_download) \/ basename(u) \in Range(skipped)
    /\ Len(to_download) + Len(skipped) = Cardinality(Range(urls))

\* C4: with skip_existing, a reference whose destination the existence
\* check found at enumeration time is never handed to wget_download or to
\* aria2c; without it every reference is to be downloaded, and is handed to
\* the fetch primitive by the time the run has printed its summary or run
\* aria2c.
C4_SkipFilter ==
  /\ skip_existing =>
       \A u \in fetched : ~file_already_exists(fs_enum, basename(u))
  /\ (Enumerated /\ skip_existing) =>
       \A u \in Range(urls) :
         file_already_exists(fs_enum, basename(u)) =>
           u \notin Range(to_download) \cup Range(ariaInput)
  /\ (Enumerated /\ ~skip_existing) => to_download = urls
  /\ (~skip_existing /\ (pc = "done" \/ ariaRuns > 0)) =>
       Range(urls) \subseteq fetched

C4_Witness ==
  /\ pc = "done"
  /\ skip_existing
  /\ \E u \in Range(urls) :
       file_already_exists(fs_enum, basename(u)) /\ basename(u) # <<>>
  /\ fetched # {}

\* C5: a run with --dry-run invokes neither wget nor aria2c and writes no
\* file under the output directory or its .logs directory, whatever the
\* other flags are.
C5_DryRunPure ==
  dry_run =>
    /\ fetched = {}
    /\ ariaRuns = 0
    /\ log_writes = {}
    /\ fs = fs_enum

\* C6: after a first run with skip_existing in which every fetch exited 0
\* and created its file, a second run with skip_existing computes an empty
\* to_download and invokes no fetch primitive.
C6_Idempotent ==
  (run = 2 /\ prev.allOk /\ skip_existing) =>
    /\ fetched = {}
    /\ ariaRuns = 0
    /\ Enumerated => to_download = <<>>

C6_Witness ==
  /\ run = 2
  /\ prev.allOk
  /\ skip_existing
  /\ prev.to_download # <<>>
  /\ pc = "done"

\* C7: in both wget strategies a task is recorded ok=False whenever its
\* wget exited non-zero or raised, and ok=True only when wget exited 0.
C7_FailureRecorded ==
  \A r \in 1..Len(results) :
    (r <= Len(reports) /\ results[r].ok) => wgetExit[reports[r].task] = 0

\* C8: a run of a wget strategy in which a task failed (non-zero exit or
\* exception) still reaches the summary and ends with exit code 0.
C8_FailuresNotFatal ==
  ( /\ ~use_aria
    /\ ~dry_run
    /\ pc \in {"done", "crashed", "exited"}
    /\ \E k \in 1..Len(to_download) : attempts[k] >= 1 /\ wgetExit[k] # 0 )
  => (pc = "done" /\ exitCode = 0)

\* C9: in the thread-pool strategy the log paths of tasks running at the
\* same time are pairwise distinct.
C9_DistinctLogs ==
  \A k1 \in Running : \A k2 \in Running :
    k1 # k2 => wget_name(to_download[k1]) # wget_name(to_download[k2])

\* C10: in the thread-pool strategy the number of wget_download calls in
\* flight never exceeds max(1, concurrency).
C10_BoundedInFlight ==
  Cardinality(Running) <= Max(1, concurrency)

C10_Witness ==
  /\ Cardinality(Running) = Max(1, concurrency)
  /\ Queued # {}
  /\ pc = "pool_wait"

\* the thread-pool strategy is running or has run in this invocation
PoolMode ==
  /\ ~use_aria
  /\ ~dry_run
  /\ ~use_sequential
  /\ pc \in {"pool_submit", "pool_wait", "summary", "done"}

Submitted(k) == k <= Len(fut) /\ fut[k] # "none"

Reported(k) == ReportsOf(k) # {}

\* no task is reported twice or before its fetch ended, the reports are
\* numbered 1, 2, ... in the order they are printed, and the summary comes
\* after the report of every task
ReportedOnceAfterFetch ==
  PoolMode =>
    /\ \A r \in 1..Len(reports) :
         /\ reports[r].idx = r
         /\ fut[reports[r].task] \in {"returned", "raised"}
    /\ \A k \in 1..Len(to_download) : Cardinality(ReportsOf(k)) <= 1
    /\ pc \in {"summary", "done"} =>
         \A k \in 1..Len(to_download) : Cardinality(ReportsOf(k)) = 1

\* the fetches that have ended and are not reported yet, oldest first
Unreported == early \o late

NewReport == Len(reports') = Len(reports) + 1

\* a report is the report of the fetch that ended first among those not
\* reported yet
ReportsOldest ==
  (PoolMode /\ NewReport) => reports'[Len(reports')].task = Head(Unreported)

\* a report is the report of the fetch that ended first among those not
\* reported yet, or of one that had ended before as_completed began
ReportsOldestOrEarly ==
  (PoolMode /\ NewReport) =>
    \/ reports'[Len(reports')].task = Head(Unreported)
    \/ reports'[Len(reports')].task \in Range(early)

EveryTaskReported ==
  \A k \in 1..MaxPoolUrls : (Submitted(k) ~> Reported(k))

\* C11 as stated: in the thread-pool strategy, given that every wget
\* terminates, every submitted task is eventually reported exactly once and
\* never before its fetch ended, the reports carry the indices 1..total in
\* the order in which the fetches ended, and the summary is printed only
\* after every task has been reported.
C11_ReportedInCompletionOrder ==
  /\ []ReportedOnceAfterFetch
  /\ [][ReportsOldest]_vars
  /\ EveryTaskReported

\* C11 amended: in the thread-pool strategy, given that every wget
\* terminates, every submitted task is eventually reported exactly once and
\* never before its fetch ended, the reports carry the indices 1..total in
\* the order they are printed, the summary is printed only after every task
\* has been reported, and the order of the reports follows the order in
\* which the fetches ended except among the fetches that had ended before
\* as_completed began.
C11_ReportedOnce ==
  /\ []ReportedOnceAfterFetch
  /\ [][ReportsOldestOrEarly]_vars
  /\ EveryTaskReported

\* two fetches had ended before as_completed began; one of them has been
\* reported and the other is waiting for its report
C11_Witness ==
  /\ PoolMode
  /\ pc = "pool_wait"
  /\ Len(reports) = 1
  /\ reports[1].task = 1
  /\ early = <<2>>
  /\ late = <<>>
  /\ \A k \in 1..Len(fut) : fut[k] \in {"returned", "raised"}

\* the sequential strategy is running or has run in this invocation
SeqMode ==
  /\ ~use_aria
  /\ ~dry_run
  /\ use_sequential
  /\ pc \in {"seq", "seq_report", "summary", "done", "crashed"}

\* C12: in the sequential strategy the tasks are fetched one at a time in
\* the order of to_download: the fetch of a task starts only after every
\* earlier task has been fetched and reported, at most one fetched task is
\* waiting for its report, and the i-th report line and the i-th entry of
\* results belong to the i-th element of to_download.
C12_SequentialInOrder ==
  SeqMode =>
    /\ \A k \in 1..Len(to_download) :
         attempts[k] >= 1 =>
           \A j \in 1..(k - 1) : attempts[j] >= 1 /\ Reported(j)
    /\ Cardinality({ k \in 1..Len(to_download) :
                       attempts[k] >= 1 /\ ~Reported(k) }) <= 1
    /\ Len(results) = Len(reports)
    /\ \A r \in 1..Len(reports) :
         /\ reports[r].idx = r
         /\ reports[r].task = r
         /\ results[r].name = wget_name(to_download[r])
         /\ results[r].ok = reports[r].ok

C12_Witness ==
  /\ SeqMode
  /\ pc = "done"
  /\ Len(results) >= 2
  /\ results[1].name # results[2].name

\* C14: when a run that is not a dry run prints its summary, the attempted
\* count is the length of to_download and the number of tasks handed to
\* wget_download, succeeded + failed is the attempted count, the skipped
\* count is the number of input references the existence check found
\* present at enumeration, and attempted + skipped is the number of input
\* references; for the input [a, b, c] with a present, skip_existing,
\* concurrency 2 and both fetches exiting 0 the summary is attempted 2,
\* succeeded 2, failed 0, skipped 1.
C14_SummaryCounts ==
  (pc \in {"summary", "done"} /\ ~dry_run) =>
    /\ total = Cardinality({ k \in 1..Len(to_download) : attempts[k] >= 1 })
    /\ succ + fail = total
    /\ Len(skipped) =
         Cardinality({ k \in 1..Len(urls) :
                        /\ skip_existing
                        /\ file_already_exists(fs_enum, basename(urls[k])) })
    /\ total + Len(skipped) = Len(urls)
    /\ ( /\ urls = ExampleUrls
         /\ fs_enum = { <<"a">> }
         /\ skip_existing
         /\ ~use_sequential
         /\ \A k \in 1..Len(to_download) : wgetExit[k] = 0 )
       => (total = 2 /\ succ = 2 /\ fail = 0 /\ Len(skipped) = 1)

C14_Witness ==
  /\ pc = "done"
  /\ urls = ExampleUrls
  /\ fs_enum = { <<"a">> }
  /\ skip_existing
  /\ ~use_sequential
  /\ Len(to_download) = 2
  /\ \A k \in 1..Len(to_download) : wgetExit[k] = 0

\* sub is seq with some elements left out, the others in their order
IsSubsequence(sub, seq) ==
  \E f \in [1..Len(sub) -> 1..Len(seq)] :
    /\ \A j \in 1..Len(sub) : sub[j] = seq[f[j]]
    /\ \A j1 \in 1..Len(sub) : \A j2 \in 1..Len(sub) :
         j1 < j2 => f[j1] < f[j2]

\* C13: enumeration keeps the input order: to_download is a subsequence of
\* the input list, skipped is a subsequence of the list of the inputs'
\* names, and every input went to one of the two.
C13_OrderPreserved ==
  Enumerated =>
    /\ IsSubsequence(to_download, urls)
    /\ IsSubsequence(skipped, [k \in 1..Len(urls) |-> basename(urls[k])])
    /\ Len(to_download) + Len(skipped) = Len(urls)

C13_Witness ==
  /\ Enumerated
  /\ Len(to_download) >= 2
  /\ to_download[1] # to_download[2]

\* the chunked-batch strategy of gdc.py is running or has returned
BatchMode ==
  gdc_method = "2" /\ gdc_pc \in {"batch", "complete", "done"}

\* the least number of chunks of at most b ids that hold n ids
CeilDiv(n, b) == CHOOSE c \in 0..n : c * b >= n /\ (c = 0 \/ (c - 1) * b < n)

\* C15: download_slides_batch on N files with batch size B >= 1 calls
\* Data.download_multiple exactly ceil(N/B) times, every chunk but the last
\* holds B ids, the last holds N mod B ids (B when B divides N), batch_num
\* runs 1..total_batches, and no call is made for N = 0; for B = 2 and
\* N = 5 the chunk sizes are 2, 2, 1.
C15_ChunkArithmetic ==
  BatchMode =>
    LET N == Len(gdc_files)
        B == BATCH_SIZE
        sizes == [c \in 1..Len(gdc_calls) |-> Len(gdc_calls[c].ids)]
    IN /\ \A c \in 1..Len(gdc_calls) :
            /\ gdc_calls[c].fn = "download_multiple"
            /\ gdc_calls[c].batch_num = c
            /\ gdc_calls[c].total_batches = CeilDiv(N, B)
            /\ c < CeilDiv(N, B) => sizes[c] = B
            /\ c = CeilDiv(N, B) =>
                 sizes[c] = (IF N % B = 0 THEN B ELSE N % B)
       /\ Len(gdc_calls) <= CeilDiv(N, B)
       /\ gdc_pc \in {"complete", "done"} =>
            /\ Len(gdc_calls) = CeilDiv(N, B)
            /\ N = 0 => gdc_calls = <<>>
            /\ (B = 2 /\ N = 5) => sizes = <<2, 2, 1>>

C15_Witness ==
  /\ BatchMode
  /\ gdc_pc = "done"
  /\ BATCH_SIZE = 2
  /\ Len(gdc_files) = 5
  /\ Len(gdc_calls) = 3

\* C16: in the chunked-batch strategy with overwrite off, a file that is in
\* the output directory when the strategy starts is in no chunk passed to
\* Data.download_multiple.
C16_BatchSkipsPresent ==
  (BatchMode /\ ~gdc_overwrite) =>
    \A c \in 1..Len(gdc_calls) : \A k \in 1..Len(gdc_files) :
      gdc_files[k].file_id \in Range(gdc_calls[c].ids) =>
        gdc_files[k].file_name \notin gdc_fs

\* the outcome lines that speak of the k-th file: its own line in
\* download_slides, the line of its chunk in download_slides_batch
AttributedTo(k) ==
  IF gdc_method = "2"
  THEN { r \in 1..Len(gdc_out) :
           /\ r <= Len(gdc_calls)
           /\ gdc_files[k].file_id \in Range(gdc_calls[r].ids) }
  ELSE { r \in 1..Len(gdc_out) : gdc_out[r].task = k }

\* C17: when either strategy of gdc.py has returned, every file handed to
\* it has exactly one outcome (complete, failed or skipped), a failed chunk
\* is the outcome of each of its files, and the number of outcomes recorded
\* is the number of files handed in.
C17_OneOutcomePerFile ==
  gdc_pc \in {"complete", "done"} =>
    /\ \A k \in 1..Len(gdc_files) : Cardinality(AttributedTo(k)) = 1
    /\ Len(gdc_out) = Len(gdc_files)

\* C18: the destination name derived from a reference is never empty (the
\* fallback name stands in for an empty last segment), and the name the
\* enumerator checks and records for a reference is the name wget_download
\* uses for its log file and its report.
C18_SameNonEmptyName ==
  Enumerated =>
    /\ \A k \in 1..Len(urls) :
         /\ basename(urls[k]) # <<>>
         /\ basename(urls[k]) = wget_name(urls[k])
    /\ \A k \in 1..Len(skipped) : skipped[k] # <<>>
    /\ \A r \in 1..Len(results) : results[r].name # <<>>

\* C19: the existence check made for a reference at enumeration is true
\* exactly when a file with the reference's name, or with that name and
\* the .svs suffix, is in the output directory, and it leaves the directory
\* as it was.
C19_ExistsExactly ==
  (pc = "branch" /\ skip_existing) =>
    /\ fs = fs_enum
    /\ \A k \in 1..Len(urls) :
         (urls[k] \notin Range(to_download)) <=>
           \/ basename(urls[k]) \in fs_enum
           \/ basename(urls[k]) \o <<".svs">> \in fs_enum

\* the invocations of Data.download or Data.download_multiple on the ids
CallsOn(ids) == { c \in 1..Len(gdc_calls) : gdc_calls[c].ids = ids }

\* C20: no strategy retries: within one run wget_download is called at most
\* once per task in both strategies of gtex.py, Data.download at most once
\* per file in download_slides and Data.download_multiple at most once per
\* chunk in download_slides_batch, whatever the calls' outcomes.
C20_NoRetry ==
  /\ \A k \in 1..Len(attempts) : attempts[k] <= 1
  /\ \A c \in 1..Len(gdc_calls) :
       Cardinality(CallsOn(gdc_calls[c].ids)) = 1
  /\ gdc_method = "1" =>
       \A k \in 1..Len(gdc_files) :
         Cardinality(CallsOn(<<gdc_files[k].file_id>>)) <= 1
  /\ gdc_method = "2" =>
       \A c1 \in 1..Len(gdc_calls) : \A c2 \in 1..Len(gdc_calls) :
         c1 # c2 => gdc_calls[c1].batch_num # gdc_calls[c2].batch_num

\* download_slides has returned after a download that failed and another
\* call that followed it
C20_Witness ==
  /\ gdc_pc = "done"
  /\ gdc_method = "1"
  /\ Len(gdc_calls) >= 2
  /\ ~gdc_calls[1].ok

\* C21: when wget is not on PATH a run of gtex.py ends with a non-zero exit
\* code, and when gdcapiwrapper cannot be imported download_slides and
\* download_slides_batch raise, in both cases before any task is passed to
\* a fetch primitive and before any existing file is removed.
C21_AbortBeforeFetch ==
  /\ (pc # "off" /\ ~wget_on_path) =>
       /\ pc \in {"start", "exited"}
       /\ pc = "exited" => exitCode = 2
       /\ fetched = {}
       /\ ariaRuns = 0
       /\ attempts = <<>>
       /\ log_writes = {}
       /\ fs = fs_enum
  /\ gdc_pc = "raised" =>
       /\ gdc_calls = <<>>
       /\ gdc_out = <<>>
       /\ gdc_removed = {}

C21_Witness ==
  /\ ~wget_on_path
  /\ pc = "exited"
  /\ urls # <<>>
  /\ fs # {}

\* download_slides is running or has returned
IndividualMode ==
  gdc_method = "1" /\ gdc_pc \in {"individual", "fetch", "complete", "done"}

\* the invocations of Data.download for the k-th file
DownloadsOf(k) == CallsOn(<<gdc_files[k].file_id>>)

\* the k-th file's destination was in the output directory when
\* download_slides began: it has been removed since, or it is there and no
\* download of this run put it there
WasPresent(k) ==
  \/ gdc_files[k].file_name \in gdc_removed
  \/ /\ gdc_files[k].file_name \in gdc_fs
     /\ \A c \in DownloadsOf(k) : ~gdc_calls[c].ok

\* C22: in download_slides with overwrite on, an existing destination is
\* removed before Data.download is invoked for its file, and Data.download
\* is never invoked while the old file is still there; with overwrite off
\* an existing destination is never removed and never fetched.
C22_RemoveBeforeFetch ==
  IndividualMode =>
    /\ \A c \in 1..Len(gdc_calls) : ~gdc_calls[c].present
    /\ gdc_pc = "fetch" => gdc_files[gdc_idx].file_name \notin gdc_fs
    /\ \A k \in 1..Len(gdc_files) :
         (WasPresent(k) /\ DownloadsOf(k) # {}) =>
           gdc_overwrite /\ gdc_files[k].file_name \in gdc_removed
    /\ ~gdc_overwrite => gdc_removed = {}

C22_Witness ==
  /\ IndividualMode
  /\ gdc_pc = "done"
  /\ gdc_overwrite
  /\ \E k \in 1..Len(gdc_files) :
       gdc_files[k].file_name \in gdc_removed /\ DownloadsOf(k) # {}

\* C23: a real run that follows a dry run on the same URL list, flags and
\* output directory computes the skipped and to_download lists the dry run
\* printed, and when it has ended it has passed exactly the dry run's
\* to_download references to wget_download.
C23_DryRunPartition ==
  (run = 2 /\ prev.dry) =>
    /\ Enumerated =>
         /\ to_download = prev.to_download
         /\ skipped = prev.skipped
    /\ pc \in {"done", "crashed"} => fetched = Range(prev.to_download)

\* the part of C23 that does not depend on the real run reaching its end:
\* the lists agree and nothing outside the dry run's list is fetched
DryRunPartitionKept ==
  (run = 2 /\ prev.dry) =>
    /\ Enumerated =>
         /\ to_download = prev.to_download
         /\ skipped = prev.skipped
    /\ fetched \subseteq Range(prev.to_download)
    /\ pc = "done" => fetched = Range(prev.to_download)

\* the outcome lines printed for the k-th file
OutcomesOf(k) == { r \in 1..Len(gdc_out) : gdc_out[r].task = k }

\* C24: in download_slides with overwrite on, when removing an existing
\* destination fails, the file gets the one outcome line that reports the
\* failure, Data.download is not invoked for it, the destination stays as
\* it was, and the loop goes on with the next file.
C24_RemoveFailureSkipsFetch ==
  IndividualMode =>
    \A k \in 1..Len(gdc_files) :
      (\E r \in OutcomesOf(k) : gdc_out[r].outcome = "remove_failed") =>
        /\ gdc_overwrite
        /\ Cardinality(OutcomesOf(k)) = 1
        /\ DownloadsOf(k) = {}
        /\ gdc_files[k].file_name \in gdc_fs
        /\ gdc_files[k].file_name \notin gdc_removed
        /\ gdc_idx > k
        /\ gdc_pc \in {"complete", "done"} =>
             \A j \in (k + 1)..Len(gdc_files) : OutcomesOf(j) # {}

C24_Witness ==
  /\ IndividualMode
  /\ gdc_pc = "done"
  /\ \E k \in 1..Len(gdc_files) :
       /\ \E r \in OutcomesOf(k) : gdc_out[r].outcome = "remove_failed"
       /\ k < Len(gdc_files)
       /\ DownloadsOf(k + 1) # {}

RECURSIVE ConcatIds(_)
\* the id lists of the calls in cs, one after the other
ConcatIds(cs) ==
  IF cs = <<>> THEN <<>> ELSE Head(cs).ids \o ConcatIds(Tail(cs))

\* C25: download_slides_batch fetches its chunks one after the other in
\* input order: the chunks fetched so far, put end to end, are the front of
\* the input id list, every id is in exactly one chunk once the function
\* has returned, the chunks together are then the input id list, and a
\* chunk whose call raised is followed by the remaining chunks.
C25_ChunksInOrder ==
  BatchMode =>
    /\ ConcatIds(gdc_calls) =
         SubSeq(file_ids, 1, Min(gdc_i, Len(file_ids)))
    /\ \A c \in 1..Len(gdc_calls) : gdc_calls[c].ids # <<>>
    /\ gdc_pc \in {"complete", "done"} =>
         /\ ConcatIds(gdc_calls) = file_ids
         /\ \A k \in 1..Len(file_ids) :
              Cardinality({ c \in 1..Len(gdc_calls) :
                              file_ids[k] \in Range(gdc_calls[c].ids) }) = 1

C25_Witness ==
  /\ BatchMode
  /\ gdc_pc = "done"
  /\ Len(gdc_calls) >= 3
  /\ ~gdc_calls[1].ok
  /\ Len(gdc_calls[1].ids) = 2

\* the step that leaves the branch on use_aria / dry_run for a strategy
\* enters the sequential loop when --sequential is set or concurrency <= 1
\* and the thread pool otherwise
SelectsByFlags ==
  (pc = "branch" /\ pc' \in {"seq", "pool_submit"}) =>
    /\ pc' = "pool_submit" <=> (~sequential /\ concurrency >= 2)
    /\ pc' = "seq" <=> (sequential \/ concurrency <= 1)

\* the strategy that is running is the one the flags select, and the pool
\* has at least two workers
RunsSelected ==
  /\ pc \in {"pool_submit", "pool_wait"} =>
       /\ ~sequential
       /\ concurrency >= 2
       /\ Max(1, concurrency) >= 2
       /\ cur = NoCur
  /\ pc \in {"seq", "seq_report"} =>
       /\ sequential \/ concurrency <= 1
       /\ \A k \in 1..Len(fut) : fut[k] = "none"

\* one of the two wget strategies was entered in this invocation
StrategyRan ==
  \/ pc \in {"seq", "seq_report", "pool_submit", "pool_wait", "summary",
              "done"}
  \/ pc = "crashed" /\ ~use_aria

\* the invocation was not a dry run, got past its startup checks and has
\* ended
RealRunEnded ==
  /\ ~dry_run
  /\ wget_on_path
  /\ urls # <<>>
  /\ pc \in {"done", "exited", "crashed"}
  /\ exitCode # 2

TempRunEnded == cleanup /\ main_pc \in {"gdc", "finished", "raised"}

\* C26: when run_prepare_gtex created temporary files, every file it created
\* (the URL file and the metadata file) is gone once the GTEx download step
\* has ended, whether run_gtex returned or raised
C26_TempFilesRemoved == TempRunEnded => tmpfiles \cap created = {}

\* the part of C26 the code keeps: the temporary URL file is gone
TempUrlFileRemoved == TempRunEnded => tmp_urls \notin tmpfiles

\* run_gdc has run gdc.py
GdcRan == returncode # 0 - 1

\* C27: every flag run_gdc puts on the command line is accepted by the
\* parser of gdc.py, with a limit (max_images > 0) as without one, so gdc.py
\* never ends on an argument error
C27_GdcFlagsAccepted ==
  GdcRan => parse_args(cmd, 1) = 0 /\ returncode # 2

\* the part of C27 the code keeps: without a limit the command line is
\* accepted
UnlimitedAccepted == (GdcRan /\ max_n = 0) => parse_args(cmd, 1) = 0

\* with a limit the parser of gdc.py always rejects the command line
LimitRejected == (GdcRan /\ max_n > 0) => returncode = 2

====
